---------------------------- MODULE Spec2Model ----------------------------
(***************************************************************************)
(* Model of the benchmark-analysis programs                                *)
(*   src/src/validation/validate_calculations.py   (the validation script) *)
(*   src/src/analysis/extract_real_data_only.py    (RealDataExtractor)     *)
(*                                                                         *)
(* The input file is the "detailed_results" block: model -> configuration  *)
(* -> measurements, kept as a sequence of groups in file order (Python     *)
(* dicts iterate in insertion order).  A measurement is a record with the  *)
(* set "keys" of the optional keys it carries, so that dict.get(k, d) is   *)
(* Get(m, k, d).  Floating-point numbers are modelled as exact rationals   *)
(* <<numerator, denominator>>; a zero denominator stands for the IEEE      *)
(* values numpy produces on a division by zero (+inf, -inf, nan).          *)
(***************************************************************************)
EXTENDS Integers, Sequences, FiniteSets, TLC

VARIABLES
    prog,                 \* which program runs: "validate", "extract", or a
                          \* "client" calling the RealDataExtractor methods
    pc,                   \* position of the running program
    raw,                  \* content of the input file (detailed_results)
    measurements,         \* validate_calculations: list of valid measurements
    consistency_results,  \* validate_mathematical_consistency: validation_results
    vi,                   \* validate_mathematical_consistency: loop index i
    peak_results,         \* identify_peak_configurations: returned dict
    scaling_results,      \* analyze_scaling_performance: returned dict
    raw_data,             \* RealDataExtractor.raw_data
    measurements_df,      \* RealDataExtractor.measurements_df (rows)
    processed_data,       \* RealDataExtractor.processed_data
    validation_results,   \* validate_measurements: validation_results
    ei,                   \* validate_measurements: position of iterrows
    file,                 \* the input file: whether it exists, its top-level keys
    stats_results,        \* reproduce_summary_statistics: returned dict
    report,               \* generate_validation_report: overall_assessment
    written,              \* the output files written so far
    raised                \* the exception the last call raised, "" if none

vars == <<prog, pc, raw, measurements, consistency_results, vi, peak_results,
          scaling_results, raw_data, measurements_df, processed_data,
          validation_results, ei, file, stats_results, report, written, raised>>

---------------------------------------------------------------------------
(* Rational arithmetic                                                     *)

RECURSIVE Gcd(_, _)
Gcd(a, b) == IF b = 0 THEN a ELSE Gcd(b, a % b)

Abs(n) == IF n < 0 THEN -n ELSE n
Sign(n) == IF n < 0 THEN -1 ELSE IF n > 0 THEN 1 ELSE 0

\* The rational n/d in lowest terms, d > 0.
Q(n, d) ==
    LET s == IF d < 0 THEN -1 ELSE 1
        g == Gcd(Abs(n), Abs(d))
    IN  <<(s * n) \div g, (s * d) \div g>>

QInt(n) == <<n, 1>>
IsFinite(a) == a[2] > 0

QAdd(a, b) ==
    IF ~IsFinite(a) THEN a ELSE IF ~IsFinite(b) THEN b
    ELSE LET g == Gcd(a[2], b[2])
         IN  Q(a[1] * (b[2] \div g) + b[1] * (a[2] \div g),
               (a[2] \div g) * b[2])
QNeg(a) == <<-a[1], a[2]>>
QSub(a, b) == QAdd(a, QNeg(b))
QMul(a, b) ==
    IF IsFinite(a) /\ IsFinite(b)
      THEN LET g1 == Gcd(Abs(a[1]), b[2])
               g2 == Gcd(Abs(b[1]), a[2])
           IN  Q((a[1] \div g1) * (b[1] \div g2),
                 (a[2] \div g2) * (b[2] \div g1))
    ELSE <<Sign(a[1]) * Sign(b[1]), 0>>
\* numpy float64 division: x/0 is +inf, -inf or nan, never an exception.
QDiv(a, b) ==
    IF ~IsFinite(a) THEN <<Sign(a[1]) * (IF b[1] < 0 THEN -1 ELSE 1), 0>>
    ELSE IF ~IsFinite(b) THEN <<0, 1>>
    ELSE IF b[1] = 0 THEN <<Sign(a[1]), 0>>
    ELSE QMul(a, Q(b[2], b[1]))
QAbs(a) == <<Abs(a[1]), a[2]>>
\* the factor each denominator contributes to a common denominator
Cross(d, e) == IF d = 0 \/ e = 0 THEN d ELSE d \div Gcd(d, e)
QLt(a, b) == a[1] * Cross(b[2], a[2]) < b[1] * Cross(a[2], b[2])
QLe(a, b) == a[1] * Cross(b[2], a[2]) <= b[1] * Cross(a[2], b[2])
QGt(a, b) == QLt(b, a)
QMax(a, b) == IF QGt(b, a) THEN b ELSE a

RECURSIVE QSum(_)
QSum(s) == IF s = <<>> THEN QInt(0) ELSE QAdd(Head(s), QSum(Tail(s)))

\* np.mean / Series.mean of a non-empty list
Mean(s) == QDiv(QSum(s), QInt(Len(s)))

\* np.max of a non-empty list
RECURSIVE MaxOf(_)
MaxOf(s) == IF Len(s) = 1 THEN s[1] ELSE QMax(s[1], MaxOf(Tail(s)))

---------------------------------------------------------------------------
(* Strings that the code searches are sequences of characters              *)

cores_s == <<"c", "o", "r", "e", "s">>
batch_s == <<"b", "a", "t", "c", "h">>
Digits == {"0", "1", "2", "4", "6", "8"}

\* Python's  sub in s
Contains(s, sub) ==
    \E k \in 1..(Len(s) - Len(sub) + 1) : SubSeq(s, k, k + Len(sub) - 1) = sub

\* dict.get(key, default) on a measurement
Get(m, key, default) == IF key \in m.keys THEN m[key] ELSE default


---------------------------------------------------------------------------
(* Input files                                                             *)

MaxMeas == 3      \* most measurements in a file (loading, peaks, scaling)
MaxValRecs == 2   \* most measurements in a file (consistency validation)

resnet18 == "resnet18-imagenet"

\* Configuration labels: an optional cores marker, "_", an optional batch marker.
CoreParts ==
    {<<>>} \cup {cores_s \o d : d \in {<<"1">>, <<"2">>, <<"4">>, <<"8">>}}
BatchParts ==
    {<<>>} \cup {batch_s \o d :
                   d \in {<<"1">>, <<"2">>, <<"4">>, <<"8">>, <<"1", "6">>}}
Labels == {c \o <<"_">> \o b : c \in CoreParts, b \in BatchParts}

Label(c, b) == cores_s \o c \o <<"_">> \o batch_s \o b

\* A measurement as the benchmark writes it; timestamps are set by BuildFile.
Nominal ==
    [timestamp |-> 0, keys |-> {}, is_valid |-> TRUE,
     latency_ms |-> QInt(10), throughput_fps |-> QInt(100),
     power_consumption_watts |-> QInt(20),
     efficiency_fps_per_watt |-> QInt(5),
     temperature_celsius |-> QInt(50),
     model_name |-> "unknown", core_count |-> 1, batch_size |-> 1]

\* The file holding entries (each a group index g and a measurement rec), in
\* order, under the configurations configs; the k-th measurement of the file
\* gets timestamp k.  A configuration without entries is not in the file.
BuildFile(configs, entries) ==
    LET stamped == [k \in 1..Len(entries) |->
                      [g |-> entries[k].g,
                       m |-> [entries[k].rec EXCEPT !.timestamp = k]]]
        measOf(g) == LET sel == SelectSeq(stamped, LAMBDA e : e.g = g)
                     IN  [k \in 1..Len(sel) |-> sel[k].m]
        gs == SelectSeq([g \in 1..Len(configs) |-> g],
                        LAMBDA g : \E k \in 1..Len(entries) : entries[k].g = g)
    IN  [j \in 1..Len(gs) |->
           [model |-> configs[gs[j]].model, config |-> configs[gs[j]].config,
            measurements |-> measOf(gs[j])]]

\* Sequences of at most n entries over G configurations, in file order.
Entries(G, R, n) ==
    {s \in UNION {[1..k -> [g : 1..G, rec : R]] : k \in 0..n} :
        \A k \in 1..(Len(s) - 1) : s[k].g <= s[k + 1].g}

\* Files that differ in their configuration label.
LabelFiles ==
    {BuildFile(<<[model |-> resnet18, config |-> l]>>,
               <<[g |-> 1, rec |-> Nominal]>>) : l \in Labels}

\* Files that differ in the is_valid flags of their measurements.
FlagRecs ==
    {[Nominal EXCEPT !.keys = {}],
     [Nominal EXCEPT !.keys = {"is_valid"}, !.is_valid = TRUE],
     [Nominal EXCEPT !.keys = {"is_valid"}, !.is_valid = FALSE]}
TwoConfigs ==
    <<[model |-> resnet18, config |-> Label(<<"1">>, <<"1">>)],
      [model |-> resnet18, config |-> Label(<<"2">>, <<"1">>)]>>
FlagFiles == {BuildFile(TwoConfigs, e) : e \in Entries(2, FlagRecs, MaxMeas)}

---------------------------------------------------------------------------
(* Record Loader                                                           *)

\* Variant: a measurement without the flag counts as invalid.
IsValidFlagDefaultFalse(m) == Get(m, "is_valid", FALSE)

\* measurement.get("is_valid", True)
IsValidFlag(m) == Get(m, "is_valid", TRUE)

\* extract_all_measurements: the loop over one configuration's measurements
RECURSIVE AppendValid(_, _)
AppendValid(all_measurements, ms) ==
    IF ms = <<>> THEN all_measurements
    ELSE AppendValid(IF IsValidFlag(Head(ms))
                       THEN Append(all_measurements, Head(ms))
                       ELSE all_measurements,
                     Tail(ms))

\* extract_all_measurements: the loops over models and configurations
RECURSIVE ExtractAll(_, _)
ExtractAll(all_measurements, groups) ==
    IF groups = <<>> THEN all_measurements
    ELSE ExtractAll(AppendValid(all_measurements, Head(groups).measurements),
                    Tail(groups))

\* Variant: the last marker tested is taken when none is found.
ExtractCoresLastAsDefault(config_name) ==
    IF Contains(config_name, cores_s \o <<"1">>) THEN 1
    ELSE IF Contains(config_name, cores_s \o <<"2">>) THEN 2
    ELSE 4

\* RealDataExtractor._extract_cores_from_config
ExtractCoresFromConfig(config_name) ==
    IF Contains(config_name, cores_s \o <<"1">>) THEN 1
    ELSE IF Contains(config_name, cores_s \o <<"2">>) THEN 2
    ELSE IF Contains(config_name, cores_s \o <<"4">>) THEN 4
    ELSE 1

\* RealDataExtractor._extract_batch_from_config
ExtractBatchFromConfig(config_name) ==
    IF Contains(config_name, batch_s \o <<"1">>) THEN 1
    ELSE IF Contains(config_name, batch_s \o <<"4">>) THEN 4
    ELSE IF Contains(config_name, batch_s \o <<"8">>) THEN 8
    ELSE IF Contains(config_name, batch_s \o <<"1", "6">>) THEN 16
    ELSE 1

\* The row extract_performance_metrics builds from one measurement
Row(model_name, config_name, m) ==
    [model |-> model_name, configuration |-> config_name,
     timestamp |-> m.timestamp,
     latency_ms |-> m.latency_ms, throughput_fps |-> m.throughput_fps,
     power_watts |-> m.power_consumption_watts,
     efficiency_fps_per_watt |-> m.efficiency_fps_per_watt,
     temperature_celsius |-> m.temperature_celsius,
     cores |-> ExtractCoresFromConfig(config_name),
     batch_size |-> ExtractBatchFromConfig(config_name)]

\* extract_performance_metrics: the loop over one configuration's measurements
RECURSIVE AppendRows(_, _, _, _)
AppendRows(all_measurements, model_name, config_name, ms) ==
    IF ms = <<>> THEN all_measurements
    ELSE AppendRows(IF IsValidFlag(Head(ms))
                      THEN Append(all_measurements,
                                  Row(model_name, config_name, Head(ms)))
                      ELSE all_measurements,
                    model_name, config_name, Tail(ms))

\* extract_performance_metrics: the loops over models and configurations
RECURSIVE ExtractRows(_, _)
ExtractRows(all_measurements, groups) ==
    IF groups = <<>> THEN all_measurements
    ELSE ExtractRows(AppendRows(all_measurements, Head(groups).model,
                                Head(groups).config, Head(groups).measurements),
                     Tail(groups))

---------------------------------------------------------------------------
(* Consistency Validator: validate_mathematical_consistency                *)

\* expected_efficiency = throughput / power if power > 0 else 0
ExpectedEfficiency(throughput, power) ==
    IF QGt(power, QInt(0)) THEN QDiv(throughput, power) ELSE QInt(0)

efficiency_tolerance == Q(1, 100)

\* Variant: the check is made whatever the sign of the efficiency.
EfficiencyFailsAnySign(m) ==
    QGt(QAbs(QSub(m.efficiency_fps_per_watt,
                  ExpectedEfficiency(m.throughput_fps,
                                     m.power_consumption_watts))),
        efficiency_tolerance)

\* if efficiency_error > efficiency_tolerance and efficiency > 0
EfficiencyFails(m) ==
    LET efficiency == m.efficiency_fps_per_watt
        expected_efficiency ==
            ExpectedEfficiency(m.throughput_fps, m.power_consumption_watts)
        efficiency_error == QAbs(QSub(efficiency, expected_efficiency))
    IN  QGt(efficiency_error, efficiency_tolerance) /\ QGt(efficiency, QInt(0))

\* Variant: the batch size of the measurement is not read.
ExpectedThroughputBatchOne(m) ==
    QDiv(QInt(1), QDiv(m.latency_ms, QInt(1000)))

\* expected_throughput = batch_size / (latency / 1000)
ExpectedThroughput(m) ==
    QDiv(QInt(Get(m, "batch_size", 1)), QDiv(m.latency_ms, QInt(1000)))

\* if latency > 0: ... if throughput_error > throughput * 0.05
ThroughputFails(m) ==
    /\ QGt(m.latency_ms, QInt(0))
    /\ QGt(QAbs(QSub(m.throughput_fps, ExpectedThroughput(m))),
           QMul(m.throughput_fps, Q(5, 100)))

EfficiencyFailure(i, m) ==
    LET expected_efficiency ==
            ExpectedEfficiency(m.throughput_fps, m.power_consumption_watts)
    IN  [measurement_index |-> i, test |-> "efficiency_calculation",
         expected |-> expected_efficiency,
         actual |-> m.efficiency_fps_per_watt,
         error |-> QAbs(QSub(m.efficiency_fps_per_watt, expected_efficiency))]

ThroughputFailure(i, m) ==
    [measurement_index |-> i, test |-> "throughput_calculation",
     expected |-> ExpectedThroughput(m), actual |-> m.throughput_fps,
     error |-> QAbs(QSub(m.throughput_fps, ExpectedThroughput(m)))]

\* One iteration of the loop over enumerate(measurements); i counts from 0.
ConsistencyBody(res, i, m) ==
    LET r1 == [res EXCEPT !.consistency_checks = @ + 1]
        r2 == IF EfficiencyFails(m)
                THEN [r1 EXCEPT !.consistency_failures = @ + 1,
                                !.failed_measurements =
                                    Append(@, EfficiencyFailure(i, m))]
                ELSE r1
    IN  IF ThroughputFails(m)
          THEN [r2 EXCEPT !.consistency_failures = @ + 1,
                          !.failed_measurements =
                              Append(@, ThroughputFailure(i, m))]
          ELSE r2

---------------------------------------------------------------------------
(* Consistency Validator: RealDataExtractor.validate_measurements          *)

\* Variant: the absolute floor alone.
StrictToleranceFloorOnly(row) == Q(1, 1000)

\* tolerance = max(0.001, row['efficiency_fps_per_watt'] * 0.001)
StrictTolerance(row) ==
    QMax(Q(1, 1000), QMul(row.efficiency_fps_per_watt, Q(1, 1000)))

RowExpectedEfficiency(row) ==
    IF QGt(row.power_watts, QInt(0))
      THEN QDiv(row.throughput_fps, row.power_watts) ELSE QInt(0)

RowEfficiencyDiff(row) ==
    QAbs(QSub(RowExpectedEfficiency(row), row.efficiency_fps_per_watt))

\* if efficiency_diff <= tolerance
RowEfficiencyPasses(row) == QLe(RowEfficiencyDiff(row), StrictTolerance(row))

\* 0.1 <= latency_ms <= 1000
LatencyInRange(row) ==
    QLe(Q(1, 10), row.latency_ms) /\ QLe(row.latency_ms, QInt(1000))
\* 1 <= throughput_fps <= 10000
ThroughputInRange(row) ==
    QLe(QInt(1), row.throughput_fps) /\ QLe(row.throughput_fps, QInt(10000))
\* 10 <= power_watts <= 100
PowerInRange(row) ==
    QLe(QInt(10), row.power_watts) /\ QLe(row.power_watts, QInt(100))
\* 20 <= temperature_celsius <= 100
TemperatureInRange(row) ==
    QLe(QInt(20), row.temperature_celsius)
    /\ QLe(row.temperature_celsius, QInt(100))

Bump(res, check) == [res EXCEPT !.validation_checks[check] = @ + 1]
Failed(res, entry) ==
    [res EXCEPT !.failed_validations = Append(@, entry)]

\* One iteration of the loop over measurements_df.iterrows(); idx counts from 0.
MeasurementBody(res, idx, row) ==
    LET r1 == IF RowEfficiencyPasses(row)
                THEN Bump(res, "mathematical_consistency")
                ELSE Failed(res, [index |-> idx,
                                  type |-> "mathematical_consistency",
                                  expected |-> RowExpectedEfficiency(row),
                                  actual |-> row.efficiency_fps_per_watt,
                                  difference |-> RowEfficiencyDiff(row)])
        r2 == IF ~LatencyInRange(row)
                THEN Failed(r1, [index |-> idx, type |-> "invalid_latency",
                                 value |-> row.latency_ms])
                ELSE r1
        r3 == IF ~ThroughputInRange(row)
                THEN Failed(r2, [index |-> idx, type |-> "invalid_throughput",
                                 value |-> row.throughput_fps])
                ELSE r2
        r4 == IF LatencyInRange(row) /\ ThroughputInRange(row)
                THEN Bump(r3, "physical_validity") ELSE r3
    IN  IF PowerInRange(row) /\ TemperatureInRange(row)
          THEN Bump(r4, "range_validation") ELSE r4

---------------------------------------------------------------------------
(* Peak Finder: identify_peak_configurations                               *)

\* A dict is a sequence of [key, ...] entries in insertion order; None is the
\* empty sequence and a value v that may be None is <<v>>.
None == <<>>
HasKey(d, k) == \E j \in 1..Len(d) : d[j].key = k
IndexOf(d, k) == CHOOSE j \in 1..Len(d) : d[j].key = k

Column(ms, f) == [k \in 1..Len(ms) |-> ms[k][f]]

\* config_key = f"{model}_cores{cores}_batch{batch}"
ConfigKey(m) ==
    <<Get(m, "model_name", "unknown"), Get(m, "core_count", 1),
      Get(m, "batch_size", 1)>>

\* the loop filling config_groups
RECURSIVE ConfigGroups(_, _)
ConfigGroups(config_groups, ms) ==
    IF ms = <<>> THEN config_groups
    ELSE LET k == ConfigKey(Head(ms))
             withKey == IF HasKey(config_groups, k) THEN config_groups
                        ELSE Append(config_groups, [key |-> k, members |-> <<>>])
             j == IndexOf(withKey, k)
         IN  ConfigGroups([withKey EXCEPT ![j].members = Append(@, Head(ms))],
                          Tail(ms))

\* for m in config_measurements: if m[f] == v: ...; break
RECURSIVE FirstWith(_, _, _)
FirstWith(ms, f, v) ==
    IF ms = <<>> THEN None
    ELSE IF Head(ms)[f] = v THEN <<Head(ms)>>
    ELSE FirstWith(Tail(ms), f, v)

ConfigSummary(g) ==
    [key |-> g.key,
     measurement_count |-> Len(g.members),
     avg_throughput |-> Mean(Column(g.members, "throughput_fps")),
     max_throughput |-> MaxOf(Column(g.members, "throughput_fps")),
     avg_efficiency |-> Mean(Column(g.members, "efficiency_fps_per_watt")),
     max_efficiency |-> MaxOf(Column(g.members, "efficiency_fps_per_watt")),
     avg_power |-> Mean(Column(g.members, "power_consumption_watts"))]

\* peak_throughput = 0, peak_efficiency = 0, the rest None
PeakStart ==
    [peak_throughput |-> QInt(0), peak_throughput_config |-> None,
     peak_throughput_measurement |-> None,
     peak_efficiency |-> QInt(0), peak_efficiency_config |-> None,
     peak_efficiency_measurement |-> None,
     config_summaries |-> <<>>]

\* if max_tp > peak_throughput
BeatsPeak(value, peak) == QGt(value, peak)

\* One iteration of the loop over config_groups.items()
PeakBody(p, g) ==
    LET max_tp == MaxOf(Column(g.members, "throughput_fps"))
        max_eff == MaxOf(Column(g.members, "efficiency_fps_per_watt"))
        p1 == [p EXCEPT !.config_summaries = Append(@, ConfigSummary(g))]
        p2 == IF BeatsPeak(max_tp, p1.peak_throughput)
                THEN [p1 EXCEPT
                        !.peak_throughput = max_tp,
                        !.peak_throughput_config = <<g.key>>,
                        !.peak_throughput_measurement =
                            FirstWith(g.members, "throughput_fps", max_tp)]
                ELSE p1
    IN  IF BeatsPeak(max_eff, p2.peak_efficiency)
          THEN [p2 EXCEPT
                  !.peak_efficiency = max_eff,
                  !.peak_efficiency_config = <<g.key>>,
                  !.peak_efficiency_measurement =
                      FirstWith(g.members, "efficiency_fps_per_watt", max_eff)]
          ELSE p2

RECURSIVE PeakScan(_, _)
PeakScan(p, groups) ==
    IF groups = <<>> THEN p ELSE PeakScan(PeakBody(p, Head(groups)), Tail(groups))

IdentifyPeakConfigurations(ms) == PeakScan(PeakStart, ConfigGroups(<<>>, ms))

---------------------------------------------------------------------------
(* Scaling Analyzer: analyze_scaling_performance                           *)

\* key = f"{model}_batch{batch}"
ComboKey(m) == <<Get(m, "model_name", "unknown"), Get(m, "batch_size", 1)>>

\* the loop filling scaling_analysis[key][cores]
RECURSIVE ScalingGroups(_, _)
ScalingGroups(scaling_analysis, ms) ==
    IF ms = <<>> THEN scaling_analysis
    ELSE LET m == Head(ms)
             cores == Get(m, "core_count", 1)
             a1 == IF HasKey(scaling_analysis, ComboKey(m)) THEN scaling_analysis
                   ELSE Append(scaling_analysis,
                               [key |-> ComboKey(m), core_data |-> <<>>])
             j == IndexOf(a1, ComboKey(m))
             cd1 == IF HasKey(a1[j].core_data, cores) THEN a1[j].core_data
                    ELSE Append(a1[j].core_data,
                                [key |-> cores, members |-> <<>>])
             c == IndexOf(cd1, cores)
         IN  ScalingGroups(
                 [a1 EXCEPT ![j].core_data =
                               [cd1 EXCEPT ![c].members = Append(@, m)]],
                 Tail(ms))

\* core_performance[cores]
CorePerformance(e) ==
    [key |-> e.key,
     avg_throughput |-> Mean(Column(e.members, "throughput_fps")),
     avg_power |-> Mean(Column(e.members, "power_consumption_watts")),
     avg_efficiency |-> Mean(Column(e.members, "efficiency_fps_per_watt")),
     measurement_count |-> Len(e.members)]

\* Variant: the scaling efficiency is not divided by the core count.
ScalingMetricUndivided(perf_data, baseline_throughput) ==
    LET scaling_factor == QDiv(perf_data.avg_throughput, baseline_throughput)
    IN  [key |-> perf_data.key,
         scaling_factor |-> scaling_factor,
         scaling_efficiency_percent |-> QMul(scaling_factor, QInt(100)),
         throughput_improvement |->
             QMul(QSub(scaling_factor, QInt(1)), QInt(100))]

\* scaling_metrics[cores], relative to the 1-core baseline
ScalingMetric(perf_data, baseline_throughput) ==
    LET scaling_factor == QDiv(perf_data.avg_throughput, baseline_throughput)
        scaling_efficiency == QDiv(scaling_factor, QInt(perf_data.key))
    IN  [key |-> perf_data.key,
         scaling_factor |-> scaling_factor,
         scaling_efficiency_percent |-> QMul(scaling_efficiency, QInt(100)),
         throughput_improvement |->
             QMul(QSub(scaling_factor, QInt(1)), QInt(100))]

\* if cores > 1
GetsMetric(cores) == cores > 1

\* Variant: a combination with a single core count is analysed too.
TooFewCoreCountsOff(core_data) == Len(core_data) < 1

\* if len(core_data) < 2: continue
TooFewCoreCounts(core_data) == Len(core_data) < 2

\* One iteration of the loop over scaling_analysis.items()
ScalingBody(results, combo) ==
    IF TooFewCoreCounts(combo.core_data) THEN results
    ELSE LET core_performance ==
                 [k \in 1..Len(combo.core_data) |->
                    CorePerformance(combo.core_data[k])]
         IN  IF HasKey(core_performance, 1)
               THEN LET baseline_throughput ==
                            core_performance[IndexOf(core_performance, 1)]
                                .avg_throughput
                        withMetric ==
                            SelectSeq(core_performance,
                                      LAMBDA pd : GetsMetric(pd.key))
                    IN  Append(results,
                          [key |-> combo.key,
                           core_performance |-> core_performance,
                           scaling_metrics |->
                             [k \in 1..Len(withMetric) |->
                                ScalingMetric(withMetric[k],
                                              baseline_throughput)]])
               ELSE results

RECURSIVE ScalingScan(_, _)
ScalingScan(results, combos) ==
    IF combos = <<>> THEN results
    ELSE ScalingScan(ScalingBody(results, Head(combos)), Tail(combos))

AnalyzeScalingPerformance(ms) == ScalingScan(<<>>, ScalingGroups(<<>>, ms))

---------------------------------------------------------------------------
(* Scaling Analyzer: RealDataExtractor._analyze_multicore_scaling          *)

\* rows of resnet18-imagenet at batch size 1
Resnet18Batch1(df) ==
    SelectSeq(df, LAMBDA r : r.model = resnet18 /\ r.batch_size = 1)

\* mean_throughput / baseline_throughput if baseline_throughput else 0
\* (baseline is None, held as <<>>, until the 1-core rows are seen)
ScalingFactor(mean_throughput, baseline) ==
    IF baseline # None /\ baseline[1] # QInt(0)
      THEN QDiv(mean_throughput, baseline[1]) ELSE QInt(0)

\* One iteration of  for cores in [1, 2, 4]; st holds scaling_data and
\* baseline_throughput.
MulticoreBody(st, rows, cores) ==
    LET core_data == SelectSeq(rows, LAMBDA r : r.cores = cores)
        mean_throughput == Mean(Column(core_data, "throughput_fps"))
        scaling_factor == IF cores = 1 THEN QInt(1)
                          ELSE ScalingFactor(mean_throughput, st.baseline)
        efficiency == IF cores = 1 THEN QInt(1)
                      ELSE QDiv(scaling_factor, QInt(cores))
    IN  IF Len(core_data) > 0
          THEN [baseline |-> IF cores = 1 THEN <<mean_throughput>>
                             ELSE st.baseline,
                scaling_data |->
                    Append(st.scaling_data,
                           [key |-> cores,
                            throughput_fps |-> mean_throughput,
                            scaling_factor |-> scaling_factor,
                            efficiency |-> efficiency,
                            sample_count |-> Len(core_data)])]
          ELSE st

RECURSIVE MulticoreScan(_, _, _)
MulticoreScan(st, rows, coreList) ==
    IF coreList = <<>> THEN st
    ELSE MulticoreScan(MulticoreBody(st, rows, Head(coreList)), rows,
                       Tail(coreList))

AnalyzeMulticoreScaling(df) ==
    LET st == MulticoreScan([baseline |-> None, scaling_data |-> <<>>],
                            Resnet18Batch1(df), <<1, 2, 4>>)
    IN  [scaling_details |-> st.scaling_data,
         overall_scaling_efficiency |->
             IF HasKey(st.scaling_data, 4)
               THEN st.scaling_data[IndexOf(st.scaling_data, 4)].efficiency
               ELSE QInt(0)]

---------------------------------------------------------------------------
(* Input files for validation, peaks and scaling                           *)

Rec(lat, thr, pow, eff, temp) ==
    [Nominal EXCEPT !.latency_ms = lat, !.throughput_fps = thr,
                    !.power_consumption_watts = pow,
                    !.efficiency_fps_per_watt = eff,
                    !.temperature_celsius = temp]

WithBatch(m, b) == [m EXCEPT !.keys = @ \cup {"batch_size"}, !.batch_size = b]

\* Measurements around the tolerance bands and the plausibility ranges.
EfficiencyRecs ==
    {Rec(QInt(10), QInt(100), QInt(20), e, QInt(50)) :
        e \in {QInt(-1), QInt(0), QInt(5), Q(1001, 200), Q(626, 125), QInt(6)}}
    \cup {Rec(QInt(10), QInt(100), QInt(0), e, QInt(50)) : e \in {QInt(0), QInt(5)}}
ThroughputRecs ==
    {Rec(l, QInt(100), QInt(20), QInt(5), QInt(50)) :
        l \in {QInt(0), QInt(8), Q(48, 5), QInt(40)}}
    \cup {WithBatch(Rec(l, QInt(100), QInt(20), QInt(5), QInt(50)), 4) :
            l \in {QInt(10), QInt(40)}}
RangeRecs ==
    {Rec(QInt(2000), QInt(100), QInt(20), QInt(5), QInt(50)),
     Rec(QInt(10), QInt(10020), QInt(20), QInt(5), QInt(50)),
     Rec(QInt(10), QInt(100), QInt(200), Q(1, 2), QInt(50)),
     Rec(QInt(40), QInt(25), QInt(5), QInt(5), QInt(50)),
     Rec(QInt(10), QInt(100), QInt(20), QInt(5), QInt(10)),
     Rec(QInt(10), QInt(100), QInt(20), QInt(5), QInt(150))}
ValRecs == EfficiencyRecs \cup ThroughputRecs \cup RangeRecs

OneConfig == <<[model |-> resnet18, config |-> Label(<<"1">>, <<"1">>)]>>
ValFiles == {BuildFile(OneConfig, e) : e \in Entries(1, ValRecs, MaxValRecs)}

\* The model_name, core_count and batch_size a measurement of group g carries.
Tagged(entries, tags) ==
    [k \in 1..Len(entries) |->
       [g |-> entries[k].g,
        rec |-> [entries[k].rec EXCEPT
                   !.keys = @ \cup {"model_name", "core_count", "batch_size"},
                   !.model_name = resnet18,
                   !.core_count = tags[entries[k].g][1],
                   !.batch_size = tags[entries[k].g][2]]]]

\* Files with ties and distinct winners for the two peaks.
PeakRecs ==
    {Rec(QInt(10), QInt(100), QInt(20), QInt(5), QInt(50)),
     Rec(QInt(10), QInt(150), QInt(20), QInt(4), QInt(50)),
     Rec(QInt(10), QInt(120), QInt(20), QInt(6), QInt(50)),
     Rec(QInt(10), QInt(100), QInt(20), QInt(-1), QInt(50))}
PeakFiles ==
    {BuildFile(TwoConfigs, Tagged(e, <<(<<1, 1>>), (<<2, 1>>)>>)) :
        e \in Entries(2, PeakRecs, MaxMeas)}

\* Files with 1-, 2- and 4-core groups at batch 1 and a 2-core group at batch 4.
ScaleConfigs ==
    <<[model |-> resnet18, config |-> Label(<<"1">>, <<"1">>)],
      [model |-> resnet18, config |-> Label(<<"2">>, <<"1">>)],
      [model |-> resnet18, config |-> Label(<<"4">>, <<"1">>)],
      [model |-> resnet18, config |-> Label(<<"2">>, <<"4">>)]>>
ScaleRecs ==
    {Rec(QInt(10), QInt(100), QInt(20), QInt(5), QInt(50)),
     Rec(QInt(10), QInt(350), QInt(20), Q(35, 2), QInt(50))}
ScaleFiles ==
    {BuildFile(ScaleConfigs,
               Tagged(e, <<(<<1, 1>>), (<<2, 1>>), (<<4, 1>>), (<<2, 4>>)>>)) :
        e \in Entries(4, ScaleRecs, MaxMeas)}

---------------------------------------------------------------------------
(* Statistics Aggregator: reproduce_summary_statistics and the             *)
(* performance_statistics of calculate_real_statistics                     *)
(*                                                                         *)
(* A standard deviation is a square root and stays exact as the signed     *)
(* root <<s, r>> = s * sqrt(r), s in {-1, 0, 1}, r a rational; r is nan    *)
(* (<<0, 0>>) when the root is of nan.  A margin of error is the product   *)
(* of the Student-t quantile t(0.975, df) and a signed root, kept as the   *)
(* record [df, root]; the quantile at df = 0 is nan.                       *)

NaN == <<0, 0>>
IsNaN(a) == a[2] = 0 /\ a[1] = 0

\* np.min of a non-empty list
RECURSIVE MinOf(_)
MinOf(s) ==
    IF Len(s) = 1 THEN s[1]
    ELSE LET m == MinOf(Tail(s)) IN IF QLt(m, s[1]) THEN m ELSE s[1]

\* sum of squared deviations / (n - 1): the variance np.std(ddof=1) and
\* Series.std() take the root of; 0/0 = nan for a single sample
SampleVariance(s) ==
    LET mean == Mean(s)
        sq == [k \in 1..Len(s) |-> QMul(QSub(s[k], mean), QSub(s[k], mean))]
    IN  QDiv(QSum(sq), QInt(Len(s) - 1))

\* the signed root s * sqrt(r)
Root(sgn, r) ==
    IF IsNaN(r) THEN <<0, NaN>>
    ELSE IF r[1] = 0 \/ sgn = 0 THEN <<0, QInt(0)>>
    ELSE <<sgn, r>>
RootIsNaN(x) == IsNaN(x[2])

\* np.std(values, ddof=1)
SampleStd(s) == Root(1, SampleVariance(s))

\* std / np.sqrt(n)
StdOverSqrtN(std, n) == Root(std[1], QDiv(std[2], QInt(n)))

\* stats.t.ppf(0.975, df) * (std / np.sqrt(n)); t.ppf is nan at df = 0
MarginOfError(std, n) ==
    IF n - 1 <= 0 \/ RootIsNaN(std)
      THEN [df |-> n - 1, root |-> <<0, NaN>>]
      ELSE [df |-> n - 1, root |-> StdOverSqrtN(std, n)]
MarginIsNaN(margin) == RootIsNaN(margin.root)

\* mean + k * margin_error for k in {-1, 1}
MeanPlus(mean, k, margin) ==
    [base |-> IF MarginIsNaN(margin) THEN NaN ELSE mean,
     k |-> IF margin.root[1] = 0 THEN 0 ELSE k,
     margin |-> margin]

\* sample_std / sample_mean of numpy floats: nan for 0 / 0 and an infinity
\* for any other standard deviation over 0
StdOverMean(std, mean) ==
    IF mean = QInt(0)
      THEN IF std[1] = 0 THEN <<0, NaN>> ELSE <<std[1], <<1, 0>>>>
      ELSE Root(std[1] * Sign(mean[1]), QDiv(std[2], QMul(mean, mean)))

\* Variant: the quotient without the test on the mean.
CoefficientOfVariationUnguarded(std, mean) == StdOverMean(std, mean)

\* float(sample_std / sample_mean) if sample_mean != 0 else 0
CoefficientOfVariation(std, mean) ==
    IF mean # QInt(0) THEN StdOverMean(std, mean) ELSE <<0, QInt(0)>>

\* the metrics of stats_results, in the order of the dict, and whether the
\* loop over them computes an interval (temperature is skipped)
VMetrics ==
    <<"power_consumption_watts", "throughput_fps", "efficiency_fps_per_watt",
      "temperature_celsius">>
SkipsInterval(metric_name) == metric_name = "temperature_celsius"

\* One entry of stats_results after the confidence-interval loop
MetricStatistics(metric_name, values) ==
    LET mean == Mean(values)
        std == SampleStd(values)
        margin_error == MarginOfError(std, Len(values))
    IN  [key |-> metric_name,
         count |-> Len(values),
         mean |-> mean,
         std |-> std,
         min |-> MinOf(values),
         max |-> MaxOf(values),
         confidence_interval_95 |->
             IF SkipsInterval(metric_name) THEN None
             ELSE <<[lower |-> MeanPlus(mean, -1, margin_error),
                     upper |-> MeanPlus(mean, 1, margin_error)]>>,
         margin_of_error |->
             IF SkipsInterval(metric_name) THEN None ELSE <<margin_error>>]

\* reproduce_summary_statistics on a non-empty list of measurements
ReproduceStatistics(ms) ==
    [j \in 1..Len(VMetrics) |->
       MetricStatistics(VMetrics[j], Column(ms, VMetrics[j]))]

\* metrics of calculate_real_statistics
EMetrics ==
    <<"latency_ms", "throughput_fps", "power_watts", "efficiency_fps_per_watt",
      "temperature_celsius">>

\* if len(data) > 1
EnoughSamples(data) == Len(data) > 1

\* performance_stats[metric]
PerformanceEntry(metric, data) ==
    LET sample_mean == Mean(data)
        sample_std == SampleStd(data)
        margin_of_error == MarginOfError(sample_std, Len(data))
    IN  [key |-> metric,
         count |-> Len(data),
         mean |-> sample_mean,
         std |-> sample_std,
         min |-> MinOf(data),
         max |-> MaxOf(data),
         confidence_interval_95 |->
             <<[lower |-> MeanPlus(sample_mean, -1, margin_of_error),
                upper |-> MeanPlus(sample_mean, 1, margin_of_error),
                margin_of_error |-> margin_of_error]>>,
         coefficient_of_variation |->
             CoefficientOfVariation(sample_std, sample_mean)]

\* the loop over metrics: a metric with a single sample gets no entry
PerformanceStatistics(df) ==
    LET kept == SelectSeq(EMetrics,
                          LAMBDA metric : EnoughSamples(Column(df, metric)))
    IN  [j \in 1..Len(kept) |-> PerformanceEntry(kept[j], Column(df, kept[j]))]

---------------------------------------------------------------------------
(* The programs                                                            *)

\* The top-level keys of a complete results file
TopLevelKeys == {"detailed_results", "summary_statistics", "benchmark_metadata"}
CompleteFile == [exists |-> TRUE, keys |-> TopLevelKeys]

\* The files a run or a client may meet: missing, or with any of the
\* top-level keys absent.
FileStructures ==
    {[exists |-> FALSE, keys |-> {}]}
    \cup {[exists |-> TRUE, keys |-> K] : K \in SUBSET TopLevelKeys}

\* Contents for these files: a consistent measurement, one that fails both
\* consistency checks, one flagged invalid, and two whose efficiencies -1 and
\* 1 have mean 0.
RunRecs ==
    {Nominal,
     Rec(QInt(10), QInt(50), QInt(20), QInt(5), QInt(50)),
     [Nominal EXCEPT !.keys = {"is_valid"}, !.is_valid = FALSE],
     Rec(QInt(10), QInt(100), QInt(20), QInt(-1), QInt(50)),
     Rec(QInt(10), QInt(50), QInt(20), QInt(1), QInt(50))}
RunContents == {BuildFile(OneConfig, e) : e \in Entries(1, RunRecs, MaxMeas)}

\* summary_statistics.total_measurements: the number of measurements in the file
RECURSIVE TotalMeasurements(_)
TotalMeasurements(groups) ==
    IF groups = <<>> THEN 0
    ELSE Len(Head(groups).measurements) + TotalMeasurements(Tail(groups))

InitState ==
    /\ pc = IF prog = "client" THEN "client" ELSE "main"
    /\ measurements = <<>>
    /\ consistency_results = None
    /\ vi = 0
    /\ stats_results = None
    /\ peak_results = None
    /\ scaling_results = None
    /\ report = None
    /\ raw_data = None
    /\ measurements_df = [set |-> FALSE, rows |-> <<>>]
    /\ processed_data = None
    /\ validation_results = None
    /\ ei = 0
    /\ written = {}
    /\ raised = ""

\* A file of any structure, for a run of either program or for a client
InitRun ==
    /\ prog \in {"validate", "extract", "client"}
    /\ file \in FileStructures
    /\ raw \in IF "detailed_results" \in file.keys THEN RunContents ELSE {<<>>}
    /\ InitState

\* A complete file with its detailed_results among files, for a run of either
\* program; the client is given the files of InitRun.
InitWith(files) ==
    \/ /\ prog \in {"validate", "extract"}
       /\ file = CompleteFile
       /\ raw \in files
       /\ InitState
    \/ /\ prog = "client"
       /\ file \in FileStructures
       /\ raw \in IF "detailed_results" \in file.keys THEN RunContents
                                                       ELSE {<<>>}
       /\ InitState

InitLoad == InitWith(LabelFiles \cup FlagFiles)
InitValidate == InitWith(ValFiles)
InitPeak == InitWith(PeakFiles)
InitScale == InitWith(ScaleFiles)
Init == InitLoad \/ InitValidate \/ InitPeak \/ InitScale \/ InitRun

VFrame == UNCHANGED <<prog, raw, file, raw_data, measurements_df,
                      processed_data, validation_results, ei>>
EFrame == UNCHANGED <<prog, raw, file, measurements, consistency_results, vi,
                      stats_results, peak_results, scaling_results, report>>

\* if not data: a missing or unparsable file gives None, an empty object is
\* falsy as well
NoData == ~file.exists \/ file.keys = {}

\* validate_calculations.main: data = load_original_benchmark_data();
\* if not data: return False
LoadOriginalBenchmarkData ==
    /\ prog = "validate" /\ pc = "main"
    /\ pc' = IF NoData THEN "no_data" ELSE "extract_all_measurements"
    /\ UNCHANGED <<measurements, consistency_results, vi, stats_results,
                   peak_results, scaling_results, report, written, raised>>
    /\ VFrame

\* generate_validation_report: measurements = extract_all_measurements(data)
ExtractAllMeasurements ==
    /\ prog = "validate" /\ pc = "extract_all_measurements"
    /\ measurements' = IF "detailed_results" \in file.keys
                         THEN ExtractAll(<<>>, raw) ELSE <<>>
    /\ pc' = "original_dataset_info"
    /\ UNCHANGED <<consistency_results, vi, stats_results, peak_results,
                   scaling_results, report, written, raised>>
    /\ VFrame

\* data.get("summary_statistics", {}).get("total_measurements", 1)
SummaryTotal ==
    IF "summary_statistics" \in file.keys THEN TotalMeasurements(raw) ELSE 1

\* generate_validation_report: report = {... "success_rate": len(measurements)
\* / total_measurements}, ZeroDivisionError for a total of 0
OriginalDatasetInfo ==
    /\ prog = "validate" /\ pc = "original_dataset_info"
    /\ IF SummaryTotal = 0
         THEN pc' = "crashed" /\ raised' = "ZeroDivisionError"
         ELSE pc' = "validate_mathematical_consistency" /\ UNCHANGED raised
    /\ UNCHANGED <<measurements, consistency_results, vi, stats_results,
                   peak_results, scaling_results, report, written>>
    /\ VFrame

\* validate_mathematical_consistency: validation_results = {...}
ConsistencyBegin ==
    /\ prog = "validate" /\ pc = "validate_mathematical_consistency"
    /\ consistency_results' =
         <<[total_measurements |-> Len(measurements), consistency_checks |-> 0,
            consistency_failures |-> 0, failed_measurements |-> <<>>]>>
    /\ vi' = 0
    /\ pc' = "consistency_loop"
    /\ UNCHANGED <<measurements, stats_results, peak_results, scaling_results,
                   report, written, raised>>
    /\ VFrame

\* Variant: an iteration that writes the outcome into the record it checked.
ConsistencyStepMarking ==
    /\ prog = "validate" /\ pc = "consistency_loop"
    /\ vi < Len(measurements)
    /\ consistency_results' =
         <<ConsistencyBody(consistency_results[1], vi, measurements[vi + 1])>>
    /\ measurements' = [measurements EXCEPT ![vi + 1].keys = @ \cup {"is_valid"},
                                            ![vi + 1].is_valid = FALSE]
    /\ vi' = vi + 1
    /\ UNCHANGED <<pc, stats_results, peak_results, scaling_results, report,
                   written, raised>>
    /\ VFrame

\* validate_mathematical_consistency: one iteration of the loop
ConsistencyStep ==
    /\ prog = "validate" /\ pc = "consistency_loop"
    /\ vi < Len(measurements)
    /\ consistency_results' =
         <<ConsistencyBody(consistency_results[1], vi, measurements[vi + 1])>>
    /\ vi' = vi + 1
    /\ UNCHANGED <<pc, measurements, stats_results, peak_results,
                   scaling_results, report, written, raised>>
    /\ VFrame

\* (consistency_checks - consistency_failures) / consistency_checks * 100
SuccessRate(res) ==
    QMul(Q(res.consistency_checks - res.consistency_failures,
           res.consistency_checks), QInt(100))

\* validate_mathematical_consistency: success_rate = (checks - failures) /
\* checks * 100 raises ZeroDivisionError when there was no measurement.
ConsistencyEnd ==
    /\ prog = "validate" /\ pc = "consistency_loop"
    /\ vi = Len(measurements)
    /\ IF consistency_results[1].consistency_checks = 0
         THEN pc' = "crashed" /\ raised' = "ZeroDivisionError"
         ELSE pc' = "reproduce_summary_statistics" /\ UNCHANGED raised
    /\ UNCHANGED <<measurements, consistency_results, vi, stats_results,
                   peak_results, scaling_results, report, written>>
    /\ VFrame

\* generate_validation_report: stats_results = reproduce_summary_statistics(...)
\* (np.min of an empty list raises ValueError)
ReproduceSummaryStatistics ==
    /\ prog = "validate" /\ pc = "reproduce_summary_statistics"
    /\ IF measurements = <<>>
         THEN /\ pc' = "crashed" /\ raised' = "ValueError"
              /\ UNCHANGED stats_results
         ELSE /\ stats_results' = <<ReproduceStatistics(measurements)>>
              /\ pc' = "identify_peak_configurations"
              /\ UNCHANGED raised
    /\ UNCHANGED <<measurements, consistency_results, vi, peak_results,
                   scaling_results, report, written>>
    /\ VFrame

\* generate_validation_report: peak_results = identify_peak_configurations(...)
IdentifyPeaks ==
    /\ prog = "validate" /\ pc = "identify_peak_configurations"
    /\ peak_results' = <<IdentifyPeakConfigurations(measurements)>>
    /\ pc' = "analyze_scaling_performance"
    /\ UNCHANGED <<measurements, consistency_results, vi, stats_results,
                   scaling_results, report, written, raised>>
    /\ VFrame

\* generate_validation_report: scaling_results = analyze_scaling_performance(...)
AnalyzeScaling ==
    /\ prog = "validate" /\ pc = "analyze_scaling_performance"
    /\ scaling_results' = <<AnalyzeScalingPerformance(measurements)>>
    /\ pc' = "overall_assessment"
    /\ UNCHANGED <<measurements, consistency_results, vi, stats_results,
                   peak_results, report, written, raised>>
    /\ VFrame

\* report["overall_assessment"]
Assessment(res, n) ==
    LET math_success_rate == SuccessRate(res)
    IN  [mathematical_consistency_rate |-> math_success_rate,
         data_quality |->
             IF QLe(QInt(95), math_success_rate) THEN "EXCELLENT"
             ELSE IF QLe(QInt(90), math_success_rate) THEN "GOOD" ELSE "POOR",
         statistical_validity |->
             IF n > 1000 THEN "HIGH" ELSE IF n > 100 THEN "MEDIUM" ELSE "LOW",
         validation_status |->
             IF QLe(QInt(95), math_success_rate) /\ n > 1000
               THEN "PASSED" ELSE "FAILED"]

\* generate_validation_report: the overall assessment and the saved report
OverallAssessment ==
    /\ prog = "validate" /\ pc = "overall_assessment"
    /\ report' = <<Assessment(consistency_results[1], Len(measurements))>>
    /\ written' = written \cup {"VALIDATION_CALCULATIONS_REPORT.json"}
    /\ pc' = "done"
    /\ UNCHANGED <<measurements, consistency_results, vi, stats_results,
                   peak_results, scaling_results, raised>>
    /\ VFrame


\* json.load(f): the top-level object of the file
LoadedData == [keys |-> file.keys, detailed_results |-> raw]

\* Variant: a load that raises for a missing file only.
LoadRaisesWhenMissingOnly == IF ~file.exists THEN "FileNotFoundError" ELSE ""

\* load_real_measurements: FileNotFoundError for a missing file; the log lines
\* after self.raw_data = json.load(f) read summary_statistics and
\* benchmark_metadata and raise KeyError when one is absent.
LoadRaises ==
    IF ~file.exists THEN "FileNotFoundError"
    ELSE IF {"summary_statistics", "benchmark_metadata"} \subseteq file.keys
      THEN "" ELSE "KeyError"
RawDataAfterLoad == IF file.exists THEN <<LoadedData>> ELSE raw_data

\* if not self.raw_data: None and the empty object are falsy
NoRawData == raw_data = None \/ raw_data[1].keys = {}

\* self.raw_data.get('detailed_results', {}) turned into the DataFrame
ExtractedFrame ==
    [set |-> TRUE,
     rows |-> ExtractRows(<<>>, IF "detailed_results" \in raw_data[1].keys
                                  THEN raw_data[1].detailed_results ELSE <<>>)]

\* RealDataExtractor.load_real_measurements, called by main
LoadRealMeasurements ==
    /\ prog = "extract" /\ pc = "main"
    /\ raw_data' = RawDataAfterLoad
    /\ raised' = LoadRaises
    /\ pc' = IF LoadRaises = "" THEN "extract_performance_metrics" ELSE "failed"
    /\ UNCHANGED <<measurements_df, processed_data, validation_results, ei,
                   written>>
    /\ EFrame

\* RealDataExtractor.extract_performance_metrics, called by main
ExtractPerformanceMetrics ==
    /\ prog = "extract" /\ pc = "extract_performance_metrics"
    /\ IF NoRawData
         THEN /\ raised' = "ValueError" /\ pc' = "failed"
              /\ UNCHANGED measurements_df
         ELSE /\ measurements_df' = ExtractedFrame
              /\ pc' = "calculate_real_statistics"
              /\ UNCHANGED raised
    /\ UNCHANGED <<raw_data, processed_data, validation_results, ei, written>>
    /\ EFrame

\* peak_performance of calculate_real_statistics
PeakPerformance(df) ==
    [peak_throughput_fps |-> MaxOf(Column(df, "throughput_fps")),
     peak_efficiency_fps_per_watt |->
         MaxOf(Column(df, "efficiency_fps_per_watt"))]

\* self.processed_data of calculate_real_statistics
ProcessedData(df) ==
    [total_measurements |-> Len(df),
     performance_statistics |-> PerformanceStatistics(df),
     peak_performance |-> PeakPerformance(df),
     multicore_scaling |-> AnalyzeMulticoreScaling(df)]

\* calculate_real_statistics: self.measurements_df is not set by __init__, so
\* the test  self.measurements_df is None  raises AttributeError before
\* extract_performance_metrics; a frame built from no rows has no columns and
\* measurements_df['model'] raises KeyError.
StatisticsRaises ==
    IF ~measurements_df.set THEN "AttributeError"
    ELSE IF measurements_df.rows = <<>> THEN "KeyError" ELSE ""

\* RealDataExtractor.calculate_real_statistics, called by main
CalculateRealStatistics ==
    /\ prog = "extract" /\ pc = "calculate_real_statistics"
    /\ IF StatisticsRaises # ""
         THEN /\ pc' = "failed" /\ raised' = StatisticsRaises
              /\ UNCHANGED processed_data
         ELSE /\ processed_data' = <<ProcessedData(measurements_df.rows)>>
              /\ pc' = "save_processed_data"
              /\ UNCHANGED raised
    /\ UNCHANGED <<raw_data, measurements_df, validation_results, ei, written>>
    /\ EFrame

\* save_processed_data: the statistics and the dataset files, written before
\* validate_measurements is called
SaveProcessedData ==
    /\ prog = "extract" /\ pc = "save_processed_data"
    /\ written' = written \cup
                    {"real_data_statistics.json"} \cup
                    (IF measurements_df.set
                       THEN {"real_measurements_dataset.csv",
                             "real_measurements_dataset.json"} ELSE {})
    /\ pc' = "validate_measurements"
    /\ UNCHANGED <<raw_data, measurements_df, processed_data,
                   validation_results, ei, raised>>
    /\ EFrame

\* validation_results = {...} of validate_measurements
EmptyValidation(df) ==
    [total_measurements |-> Len(df),
     validation_checks |->
         [mathematical_consistency |-> 0, physical_validity |-> 0,
          range_validation |-> 0],
     failed_validations |-> <<>>,
     validation_percentages |-> None]

\* validate_measurements (called by save_processed_data): validation_results = {...}
MeasurementsBegin ==
    /\ prog = "extract" /\ pc = "validate_measurements"
    /\ measurements_df.set
    /\ validation_results' = <<EmptyValidation(measurements_df.rows)>>
    /\ ei' = 0
    /\ pc' = "measurements_loop"
    /\ UNCHANGED <<raw_data, measurements_df, processed_data, written, raised>>
    /\ EFrame

\* validate_measurements: one iteration of the loop
MeasurementsStep ==
    /\ prog = "extract" /\ pc = "measurements_loop"
    /\ ei < Len(measurements_df.rows)
    /\ validation_results' =
         <<MeasurementBody(validation_results[1], ei,
                           measurements_df.rows[ei + 1])>>
    /\ ei' = ei + 1
    /\ UNCHANGED <<pc, raw_data, measurements_df, processed_data, written,
                   raised>>
    /\ EFrame

\* (count / total_measurements) * 100
Percentage(count, total_measurements) ==
    QMul(QDiv(QInt(count), QInt(total_measurements)), QInt(100))

\* validation_results['validation_percentages'] = {...}
WithPercentages(res) ==
    [res EXCEPT !.validation_percentages =
        <<[c \in DOMAIN res.validation_checks |->
             Percentage(res.validation_checks[c], res.total_measurements)]>>]

\* validate_measurements: the percentages; total_measurements = 0 raises
\* ZeroDivisionError and main returns False.
MeasurementsEnd ==
    /\ prog = "extract" /\ pc = "measurements_loop"
    /\ ei = Len(measurements_df.rows)
    /\ LET res == validation_results[1]
       IN  IF res.total_measurements = 0
             THEN /\ pc' = "failed" /\ raised' = "ZeroDivisionError"
                  /\ UNCHANGED validation_results
             ELSE /\ validation_results' = <<WithPercentages(res)>>
                  /\ pc' = "save_validation"
                  /\ UNCHANGED raised
    /\ UNCHANGED <<raw_data, measurements_df, processed_data, ei, written>>
    /\ EFrame

\* save_processed_data: the validation results are written; main returns True
SaveValidation ==
    /\ prog = "extract" /\ pc = "save_validation"
    /\ written' = written \cup {"real_data_validation.json"}
    /\ pc' = "done"
    /\ UNCHANGED <<raw_data, measurements_df, processed_data,
                   validation_results, ei, raised>>
    /\ EFrame

\* exit(0 if success else 1) of either script; an exception that leaves
\* validate_calculations.main ends the interpreter with status 1.
ExitStatus ==
    IF pc \in {"no_data", "crashed", "failed"} THEN <<1>>
    ELSE IF pc = "done"
      THEN IF prog = "extract" \/ report[1].validation_status = "PASSED"
             THEN <<0>> ELSE <<1>>
    ELSE None

---------------------------------------------------------------------------
(* A client of RealDataExtractor calling its methods in any order          *)

ClientFrame ==
    UNCHANGED <<prog, pc, raw, file, measurements, consistency_results, vi,
                stats_results, peak_results, scaling_results, report, written,
                ei>>

\* extractor.load_real_measurements()
CallLoadRealMeasurements ==
    /\ prog = "client"
    /\ raw_data' = RawDataAfterLoad
    /\ raised' = LoadRaises
    /\ UNCHANGED <<measurements_df, processed_data, validation_results>>
    /\ ClientFrame

\* extractor.extract_performance_metrics()
CallExtractPerformanceMetrics ==
    /\ prog = "client"
    /\ IF NoRawData
         THEN raised' = "ValueError" /\ UNCHANGED measurements_df
         ELSE raised' = "" /\ measurements_df' = ExtractedFrame
    /\ UNCHANGED <<raw_data, processed_data, validation_results>>
    /\ ClientFrame

\* extractor.calculate_real_statistics()
CallCalculateRealStatistics ==
    /\ prog = "client"
    /\ raised' = StatisticsRaises
    /\ processed_data' = IF StatisticsRaises = ""
                           THEN <<ProcessedData(measurements_df.rows)>>
                           ELSE processed_data
    /\ UNCHANGED <<raw_data, measurements_df, validation_results>>
    /\ ClientFrame

\* the loop of validate_measurements from row idx on
RECURSIVE MeasurementsScan(_, _, _)
MeasurementsScan(res, df, idx) ==
    IF idx = Len(df) THEN res
    ELSE MeasurementsScan(MeasurementBody(res, idx, df[idx + 1]), df, idx + 1)

\* validate_measurements: AttributeError while measurements_df is not set,
\* ZeroDivisionError in the percentages of a frame without rows
ValidationRaises ==
    IF ~measurements_df.set THEN "AttributeError"
    ELSE IF measurements_df.rows = <<>> THEN "ZeroDivisionError" ELSE ""

\* extractor.validate_measurements()
CallValidateMeasurements ==
    /\ prog = "client"
    /\ raised' = ValidationRaises
    /\ validation_results' =
         IF ValidationRaises = ""
           THEN <<WithPercentages(
                    MeasurementsScan(EmptyValidation(measurements_df.rows),
                                     measurements_df.rows, 0))>>
           ELSE validation_results
    /\ UNCHANGED <<raw_data, measurements_df, processed_data>>
    /\ ClientFrame

Next ==
    \/ LoadOriginalBenchmarkData
    \/ ExtractAllMeasurements
    \/ OriginalDatasetInfo
    \/ ConsistencyBegin
    \/ ConsistencyStep
    \/ ConsistencyEnd
    \/ ReproduceSummaryStatistics
    \/ IdentifyPeaks
    \/ AnalyzeScaling
    \/ OverallAssessment
    \/ LoadRealMeasurements
    \/ ExtractPerformanceMetrics
    \/ CalculateRealStatistics
    \/ SaveProcessedData
    \/ MeasurementsBegin
    \/ MeasurementsStep
    \/ MeasurementsEnd
    \/ SaveValidation
    \/ CallLoadRealMeasurements
    \/ CallExtractPerformanceMetrics
    \/ CallCalculateRealStatistics
    \/ CallValidateMeasurements

Spec == Init /\ [][Next]_vars
SpecLoad == InitLoad /\ [][Next]_vars
SpecValidate == InitValidate /\ [][Next]_vars
SpecPeak == InitPeak /\ [][Next]_vars
SpecScale == InitScale /\ [][Next]_vars
SpecRun == InitRun /\ [][Next]_vars

---------------------------------------------------------------------------
(* Properties of the Record Loader                                         *)

\* The measurements of the file with the group each is in.
RawEntries ==
    UNION {{[g |-> g, m |-> raw[g].measurements[k]] :
              k \in 1..Len(raw[g].measurements)} : g \in 1..Len(raw)}

\* The is_valid flag is absent or true.
FlagAbsentOrTrue(m) == "is_valid" \notin m.keys \/ m.is_valid = TRUE

Increasing(stamps) ==
    \A k \in 1..Len(stamps), l \in 1..Len(stamps) : k < l => stamps[k] < stamps[l]

\* The loader's output out holds exactly the measurements whose flag is absent
\* or true, once each, in file order (timestamps number the file's measurements).
LoadedExactly(out) ==
    /\ {out[k].timestamp : k \in 1..Len(out)}
         = {e.m.timestamp : e \in {x \in RawEntries : FlagAbsentOrTrue(x.m)}}
    /\ Increasing([k \in 1..Len(out) |-> out[k].timestamp])
    /\ \A k \in 1..Len(out) :
         \E e \in RawEntries :
            /\ e.m.timestamp = out[k].timestamp
            /\ e.m.throughput_fps = out[k].throughput_fps
            /\ FlagAbsentOrTrue(e.m)

VLoaded ==
    prog = "validate" /\ pc \notin {"main", "no_data", "extract_all_measurements"}

\* C1: the output of either loader holds exactly the measurements whose
\* is_valid flag is absent or true, each once and in file order; a measurement
\* whose flag is present and false is never in it.
C1_LoaderKeepsValid ==
    /\ VLoaded => LoadedExactly(measurements)
    /\ measurements_df.set => LoadedExactly(measurements_df.rows)

\* A file with an unflagged, a true-flagged and a false-flagged measurement
\* has been loaded, and two measurements were kept.
C1_Witness ==
    /\ VLoaded
    /\ Len(measurements) = 2
    /\ \E a, b, c \in RawEntries :
         /\ "is_valid" \notin a.m.keys
         /\ "is_valid" \in b.m.keys /\ b.m.is_valid = TRUE
         /\ "is_valid" \in c.m.keys /\ c.m.is_valid = FALSE

\* The label has the marker prefix followed by exactly the digits ds.
HasMarker(label, prefix, ds) ==
    \E k \in 1..Len(label) :
        /\ k + Len(prefix) + Len(ds) - 1 <= Len(label)
        /\ SubSeq(label, k, k + Len(prefix) + Len(ds) - 1) = prefix \o ds
        /\ \/ k + Len(prefix) + Len(ds) > Len(label)
           \/ label[k + Len(prefix) + Len(ds)] \notin Digits

CoreMarkers == {<<1, <<"1">>>>, <<2, <<"2">>>>, <<4, <<"4">>>>}
BatchMarkers ==
    {<<1, <<"1">>>>, <<4, <<"4">>>>, <<8, <<"8">>>>, <<16, <<"1", "6">>>>}

\* C6: a label with a marker coresN, N in {1, 2, 4}, and a marker batchN,
\* N in {1, 4, 8, 16}, gives a row whose cores and batch_size are those N.
C6_MarkersParsed ==
    measurements_df.set =>
      \A k \in 1..Len(measurements_df.rows) :
         LET row == measurements_df.rows[k]
         IN  \A c \in CoreMarkers, b \in BatchMarkers :
                (/\ HasMarker(row.configuration, cores_s, c[2])
                 /\ HasMarker(row.configuration, batch_s, b[2]))
                => (row.cores = c[1] /\ row.batch_size = b[1])

\* The label contains none of the substrings the parser looks for.
NoCoresMarker(label) ==
    \A c \in CoreMarkers : ~Contains(label, cores_s \o c[2])
NoBatchMarker(label) ==
    \A b \in BatchMarkers : ~Contains(label, batch_s \o b[2])

\* C7: a label without a recognised cores marker gives cores = 1, one without a
\* recognised batch marker gives batch_size = 1; the record is kept and the
\* extraction does not fail.
C7_DefaultsOnUnrecognised ==
    (prog = "extract" /\ pc \notin {"main", "extract_performance_metrics"}) =>
      /\ measurements_df.set
      /\ \A e \in RawEntries :
           FlagAbsentOrTrue(e.m) =>
             \E k \in 1..Len(measurements_df.rows) :
                LET row == measurements_df.rows[k]
                IN  /\ row.timestamp = e.m.timestamp
                    /\ row.configuration = raw[e.g].config
                    /\ NoCoresMarker(raw[e.g].config) => row.cores = 1
                    /\ NoBatchMarker(raw[e.g].config) => row.batch_size = 1

\* A measurement under a label with an unrecognised cores marker and an
\* unrecognised batch marker has become a row.
C7_Witness ==
    /\ measurements_df.set
    /\ \E k \in 1..Len(measurements_df.rows) :
         LET row == measurements_df.rows[k]
         IN  /\ row.configuration = cores_s \o <<"8", "_">> \o batch_s \o <<"2">>
             /\ row.cores = 1 /\ row.batch_size = 1

---------------------------------------------------------------------------
(* Properties of the Consistency Validator                                 *)

VScanning == prog = "validate" /\ consistency_results # None
EScanning == prog = "extract" /\ validation_results # None

\* |throughput / power - efficiency|
EfficiencyGap(throughput, power, efficiency) ==
    QAbs(QSub(QDiv(throughput, power), efficiency))

\* validate_mathematical_consistency recorded an efficiency failure for record i
VEfficiencyFlagged(i) ==
    \E k \in 1..Len(consistency_results[1].failed_measurements) :
        LET f == consistency_results[1].failed_measurements[k]
        IN  f.measurement_index = i /\ f.test = "efficiency_calculation"

\* the failure entries validate_measurements recorded for row idx, of a type
EntriesOf(idx, type) ==
    {k \in 1..Len(validation_results[1].failed_validations) :
        LET f == validation_results[1].failed_validations[k]
        IN  f.index = idx /\ f.type = type}

\* the tolerance of validate_measurements: max(0.001, efficiency * 0.001)
StrictBand(efficiency) ==
    IF QGt(QMul(efficiency, Q(1, 1000)), Q(1, 1000))
      THEN QMul(efficiency, Q(1, 1000)) ELSE Q(1, 1000)

EStrictClaim ==
    EScanning =>
      \A idx \in 0..(ei - 1) :
         LET row == measurements_df.rows[idx + 1]
         IN  QGt(row.power_watts, QInt(0)) =>
               (EntriesOf(idx, "mathematical_consistency") # {}
                <=> QGt(EfficiencyGap(row.throughput_fps, row.power_watts,
                                      row.efficiency_fps_per_watt),
                        StrictBand(row.efficiency_fps_per_watt)))

\* C2 as stated: for every record with power > 0, either validator records an
\* efficiency failure iff |throughput/power - efficiency| exceeds its
\* tolerance, whatever the efficiency is.
C2_FlaggedIffBeyondTolerance ==
    /\ VScanning =>
         \A i \in 0..(vi - 1) :
            LET m == measurements[i + 1]
            IN  QGt(m.power_consumption_watts, QInt(0)) =>
                  (VEfficiencyFlagged(i)
                   <=> QGt(EfficiencyGap(m.throughput_fps,
                                         m.power_consumption_watts,
                                         m.efficiency_fps_per_watt),
                           Q(1, 100)))
    /\ EStrictClaim

\* C2 as amended: validate_measurements flags a record with power > 0 iff the
\* gap exceeds max(0.001, efficiency * 0.001), whatever the efficiency is;
\* validate_mathematical_consistency flags it iff the gap exceeds 0.01 and
\* efficiency > 0 (a record with efficiency <= 0 is never flagged).
C2_FlaggedIffBeyondToleranceAndPositive ==
    /\ VScanning =>
         \A i \in 0..(vi - 1) :
            LET m == measurements[i + 1]
            IN  QGt(m.power_consumption_watts, QInt(0)) =>
                  (VEfficiencyFlagged(i)
                   <=> /\ QGt(EfficiencyGap(m.throughput_fps,
                                            m.power_consumption_watts,
                                            m.efficiency_fps_per_watt),
                              Q(1, 100))
                       /\ QGt(m.efficiency_fps_per_watt, QInt(0)))
    /\ EStrictClaim

\* A record with power > 0, efficiency <= 0 and a gap above 0.01 has been
\* scanned by validate_mathematical_consistency without being flagged.
C2_Witness ==
    /\ VScanning
    /\ \E i \in 0..(vi - 1) :
         LET m == measurements[i + 1]
         IN  /\ QGt(m.power_consumption_watts, QInt(0))
             /\ QLe(m.efficiency_fps_per_watt, QInt(0))
             /\ QGt(EfficiencyGap(m.throughput_fps, m.power_consumption_watts,
                                  m.efficiency_fps_per_watt), Q(1, 100))
             /\ ~VEfficiencyFlagged(i)

\* expected = throughput / power when power > 0, and 0 otherwise
StrictExpected(row) ==
    IF row.power_watts[1] > 0 THEN QDiv(row.throughput_fps, row.power_watts)
    ELSE QInt(0)

\* |expected - efficiency| <= max(0.001, efficiency * 0.001)
StrictPass(row) ==
    QLe(QAbs(QSub(StrictExpected(row), row.efficiency_fps_per_watt)),
        StrictBand(row.efficiency_fps_per_watt))

\* C3: in validate_measurements a record passes the efficiency check exactly
\* when |expected - efficiency| <= max(0.001, efficiency * 0.001); each passing
\* record adds one to mathematical_consistency and each failing record appends
\* exactly one entry with index, expected, actual and difference.
C3_StrictRegime ==
    EScanning =>
      LET res == validation_results[1]
      IN  /\ res.validation_checks.mathematical_consistency
               = Cardinality({idx \in 0..(ei - 1) :
                                StrictPass(measurements_df.rows[idx + 1])})
          /\ \A idx \in 0..(ei - 1) :
                LET row == measurements_df.rows[idx + 1]
                    es == EntriesOf(idx, "mathematical_consistency")
                IN  /\ Cardinality(es) = IF StrictPass(row) THEN 0 ELSE 1
                    /\ \A k \in es :
                         LET f == res.failed_validations[k]
                         IN  /\ DOMAIN f = {"index", "type", "expected",
                                            "actual", "difference"}
                             /\ f.expected = StrictExpected(row)
                             /\ f.actual = row.efficiency_fps_per_watt
                             /\ f.difference =
                                  QAbs(QSub(f.expected, f.actual))

\* Two rows were scanned: one passes only by the relative tolerance (its gap
\* is above the floor 0.001), the other fails and has its entry.
C3_Witness ==
    /\ EScanning /\ ei = 2
    /\ validation_results[1].validation_checks.mathematical_consistency = 1
    /\ \E idx \in 0..1 :
         LET row == measurements_df.rows[idx + 1]
         IN  /\ StrictPass(row)
             /\ QGt(QAbs(QSub(StrictExpected(row), row.efficiency_fps_per_watt)),
                    Q(1, 1000))
    /\ \E idx \in 0..1 : EntriesOf(idx, "mathematical_consistency") # {}


\* validate_mathematical_consistency recorded a throughput failure for record i
VThroughputFlagged(i) ==
    \E k \in 1..Len(consistency_results[1].failed_measurements) :
        LET f == consistency_results[1].failed_measurements[k]
        IN  f.measurement_index = i /\ f.test = "throughput_calculation"

\* |batch_size / (latency_ms / 1000) - throughput_fps| <= throughput_fps * 0.05,
\* with batch_size 1 when the record has none
ThroughputPass(m) ==
    LET b == IF "batch_size" \in m.keys THEN m.batch_size ELSE 1
        expected == QDiv(QInt(1000 * b), m.latency_ms)
    IN  QLe(QAbs(QSub(expected, m.throughput_fps)),
            QDiv(QMul(m.throughput_fps, QInt(5)), QInt(100)))

\* C4: a record with latency > 0 passes the throughput check (gets no
\* throughput failure) exactly when |batch_size / (latency_ms / 1000) -
\* throughput_fps| <= throughput_fps * 0.05; a record with latency <= 0 never
\* gets a throughput failure.
C4_ThroughputCheck ==
    VScanning =>
      \A i \in 0..(vi - 1) :
         LET m == measurements[i + 1]
         IN  IF m.latency_ms[1] > 0
               THEN ~VThroughputFlagged(i) <=> ThroughputPass(m)
               ELSE ~VThroughputFlagged(i)

\* Two records were scanned: one with its own batch size passes, and one with
\* latency 0 is there without a throughput failure.
C4_Witness ==
    /\ VScanning /\ vi = 2
    /\ \E i \in 0..1 :
         /\ "batch_size" \in measurements[i + 1].keys
         /\ measurements[i + 1].batch_size = 4
         /\ ~VThroughputFlagged(i)
    /\ \E i \in 0..1 : measurements[i + 1].latency_ms = QInt(0)

\* The plausibility ranges
LatencyPlausible(row) ==
    QLe(Q(1, 10), row.latency_ms) /\ QLe(row.latency_ms, QInt(1000))
ThroughputPlausible(row) ==
    QLe(QInt(1), row.throughput_fps) /\ QLe(row.throughput_fps, QInt(10000))
PowerPlausible(row) ==
    QLe(QInt(10), row.power_watts) /\ QLe(row.power_watts, QInt(100))
TemperaturePlausible(row) ==
    QLe(QInt(20), row.temperature_celsius)
    /\ QLe(row.temperature_celsius, QInt(100))

\* how many of the four ranges the row violates
RangesViolated(row) ==
    (IF LatencyPlausible(row) THEN 0 ELSE 1)
    + (IF ThroughputPlausible(row) THEN 0 ELSE 1)
    + (IF PowerPlausible(row) THEN 0 ELSE 1)
    + (IF TemperaturePlausible(row) THEN 0 ELSE 1)

\* the range failure entries recorded for row idx
RangeEntriesOf(idx) ==
    {k \in 1..Len(validation_results[1].failed_validations) :
        LET f == validation_results[1].failed_validations[k]
        IN  f.index = idx /\ f.type # "mathematical_consistency"}

\* No failure stops the scan: a finished run has scanned every row, and the
\* run fails only on a frame without rows.
ScanCompletes ==
    /\ (prog = "extract" /\ pc = "done") =>
          /\ ei = Len(measurements_df.rows)
          /\ validation_results[1].total_measurements = Len(measurements_df.rows)
    /\ (prog = "extract" /\ pc = "failed") => measurements_df.rows = <<>>
    /\ (prog = "extract" /\ pc = "measurements_loop") =>
          /\ ei <= Len(measurements_df.rows)
          /\ validation_results[1].validation_percentages = None

\* C5 as stated: every plausibility range a record violates (latency,
\* throughput, power, temperature) is recorded as a failure entry, and the
\* validator goes on with the remaining records.
C5_EveryRangeViolationHasEntry ==
    /\ EScanning =>
         \A idx \in 0..(ei - 1) :
            Cardinality(RangeEntriesOf(idx))
              = RangesViolated(measurements_df.rows[idx + 1])
    /\ ScanCompletes

---------------------------------------------------------------------------
(* Properties of the Peak Finder                                           *)

VPeaked == prog = "validate" /\ peak_results # None

\* (model, cores, batch_size) of a measurement, 1 and "unknown" when absent
KeyOf(m) ==
    <<IF "model_name" \in m.keys THEN m.model_name ELSE "unknown",
      IF "core_count" \in m.keys THEN m.core_count ELSE 1,
      IF "batch_size" \in m.keys THEN m.batch_size ELSE 1>>

Least(S) == CHOOSE k \in S : \A l \in S : k <= l

\* the largest value of metric f over all records
MaxValue(f) ==
    CHOOSE v \in {measurements[k][f] : k \in 1..Len(measurements)} :
        \A k \in 1..Len(measurements) : QLe(measurements[k][f], v)

\* the position at which the group of record k is first met
FirstSeen(k) ==
    Least({l \in 1..Len(measurements) :
             KeyOf(measurements[l]) = KeyOf(measurements[k])})

\* the record that is first within the first group attaining the maximum of f
Winner(f) ==
    LET attaining == {k \in 1..Len(measurements) :
                        measurements[k][f] = MaxValue(f)}
        g == Least({FirstSeen(k) : k \in attaining})
    IN  Least({k \in attaining : FirstSeen(k) = g})

\* C8: for throughput and for efficiency, the reported peak is the maximum of
\* the metric over all records, and the reported configuration and measurement
\* are the first group, and the first measurement in it, attaining the maximum;
\* for (100, 5), (150, 4), (120, 6) in one group the throughput peak is the
\* second record and the efficiency peak the third.
C8_PeakIsFirstMaximum ==
    VPeaked =>
      LET p == peak_results[1]
          wt == measurements[Winner("throughput_fps")]
          we == measurements[Winner("efficiency_fps_per_watt")]
      IN  /\ p.peak_throughput = MaxValue("throughput_fps")
          /\ p.peak_throughput_config = <<KeyOf(wt)>>
          /\ p.peak_throughput_measurement = <<wt>>
          /\ p.peak_efficiency = MaxValue("efficiency_fps_per_watt")
          /\ p.peak_efficiency_config = <<KeyOf(we)>>
          /\ p.peak_efficiency_measurement = <<we>>
          /\ ( /\ Len(measurements) = 3
               /\ KeyOf(measurements[1]) = KeyOf(measurements[2])
               /\ KeyOf(measurements[2]) = KeyOf(measurements[3])
               /\ [k \in 1..3 |-> <<measurements[k].throughput_fps,
                                    measurements[k].efficiency_fps_per_watt>>]
                    = << <<QInt(100), QInt(5)>>, <<QInt(150), QInt(4)>>,
                         <<QInt(120), QInt(6)>> >> )
             => /\ p.peak_throughput_measurement = <<measurements[2]>>
                /\ p.peak_efficiency_measurement = <<measurements[3]>>

---------------------------------------------------------------------------
(* Properties of the Scaling Analyzer                                      *)

VScaled == prog = "validate" /\ scaling_results # None
EScaled == prog = "extract" /\ processed_data # None

\* (model, batch_size) of a measurement and its core count
ComboOf(m) ==
    <<IF "model_name" \in m.keys THEN m.model_name ELSE "unknown",
      IF "batch_size" \in m.keys THEN m.batch_size ELSE 1>>
CoresOf(m) == IF "core_count" \in m.keys THEN m.core_count ELSE 1

Combos == {ComboOf(measurements[k]) : k \in 1..Len(measurements)}
CoreCounts(K) ==
    {CoresOf(measurements[k]) :
        k \in {l \in 1..Len(measurements) : ComboOf(measurements[l]) = K}}

\* average throughput of the measurements of combination K at c cores
AvgThroughput(K, c) ==
    LET sub == SelectSeq(measurements,
                         LAMBDA m : ComboOf(m) = K /\ CoresOf(m) = c)
    IN  Q(QSum([k \in 1..Len(sub) |-> sub[k].throughput_fps])[1], Len(sub))

\* the entries of analyze_scaling_performance for combination K
ResultsFor(K) ==
    {k \in 1..Len(scaling_results[1]) : scaling_results[1][k].key = K}

\* the scaling metrics of result k for core count c
MetricsFor(k, c) ==
    {j \in 1..Len(scaling_results[1][k].scaling_metrics) :
        scaling_results[1][k].scaling_metrics[j].key = c}

\* scaling_factor = avg(c) / avg(1), efficiency = factor / c (in percent),
\* improvement = (factor - 1) * 100
ScalingAsClaimed(x, avg_c, avg_1, c) ==
    /\ QMul(x.scaling_factor, avg_1) = avg_c
    /\ QMul(x.scaling_efficiency_percent, QInt(c))
         = QMul(x.scaling_factor, QInt(100))
    /\ QAdd(x.throughput_improvement, QInt(100))
         = QMul(x.scaling_factor, QInt(100))
    /\ (avg_1 = QInt(100) /\ avg_c = QInt(350) /\ c = 4)
         => /\ x.scaling_factor = Q(7, 2)
            /\ x.scaling_efficiency_percent = Q(175, 2)
            /\ x.throughput_improvement = QInt(250)

\* analyze_scaling_performance: every combination with a 1-core sub-group has,
\* for each core count c > 1, one metric entry as claimed, and none for c = 1.
VScalingClaim ==
    VScaled =>
      \A K \in Combos :
         1 \in CoreCounts(K) =>
           /\ \A c \in CoreCounts(K) \ {1} :
                /\ Cardinality(ResultsFor(K)) = 1
                /\ \A k \in ResultsFor(K) :
                     /\ Cardinality(MetricsFor(k, c)) = 1
                     /\ \A j \in MetricsFor(k, c) :
                          ScalingAsClaimed(
                              scaling_results[1][k].scaling_metrics[j],
                              AvgThroughput(K, c), AvgThroughput(K, 1), c)
           /\ \A k \in ResultsFor(K) : MetricsFor(k, 1) = {}

\* the rows _analyze_multicore_scaling looks at, by core count
ScalingRows(c) ==
    SelectSeq(measurements_df.rows,
              LAMBDA r : r.model = resnet18 /\ r.batch_size = 1 /\ r.cores = c)
RowAvg(c) ==
    Q(QSum([k \in 1..Len(ScalingRows(c)) |->
              ScalingRows(c)[k].throughput_fps])[1], Len(ScalingRows(c)))

ScalingDetails == processed_data[1].multicore_scaling.scaling_details
DetailsFor(c) == {k \in 1..Len(ScalingDetails) : ScalingDetails[k].key = c}

\* _analyze_multicore_scaling: with 1-core rows (of non-zero mean), each core
\* count c > 1 that has rows gets factor = mean(c) / mean(1) and
\* efficiency = factor / c.
EScalingFactors ==
    EScaled =>
      \A c \in {2, 4} :
         (ScalingRows(1) # <<>> /\ ScalingRows(c) # <<>>
            /\ RowAvg(1) # QInt(0)) =>
           /\ Cardinality(DetailsFor(c)) = 1
           /\ \A k \in DetailsFor(c) :
                /\ QMul(ScalingDetails[k].scaling_factor, RowAvg(1)) = RowAvg(c)
                /\ QMul(ScalingDetails[k].efficiency, QInt(c))
                     = ScalingDetails[k].scaling_factor

\* C9 as stated: in either analyzer, a group with a 1-core sub-group has for
\* each core count c > 1 scaling_factor = avg(c) / avg(1), efficiency =
\* factor / c and improvement = (factor - 1) * 100 (100 and 350 give 3.5,
\* 87.5 % and 250), and there is no scaling entry for core count 1.
C9_ScalingRelativeToOneCore ==
    /\ VScalingClaim
    /\ EScalingFactors
    /\ EScaled => DetailsFor(1) = {}

\* C9 as amended: analyze_scaling_performance is as stated, with no metric
\* entry for core count 1; _analyze_multicore_scaling (resnet18-imagenet at
\* batch 1 only) gives factor = mean(c) / mean(1) and efficiency = factor / c
\* for c in {2, 4}, computes no improvement, and does give the 1-core
\* sub-group an entry, with scaling_factor 1 and efficiency 1.
C9_ScalingRelativeToOneCoreByAnalyzer ==
    /\ VScalingClaim
    /\ EScalingFactors
    /\ EScaled =>
         /\ ScalingRows(1) # <<>> <=> DetailsFor(1) # {}
         /\ \A k \in DetailsFor(1) :
              /\ ScalingDetails[k].scaling_factor = QInt(1)
              /\ ScalingDetails[k].efficiency = QInt(1)
              /\ ScalingDetails[k].throughput_fps = RowAvg(1)
         /\ \A k \in 1..Len(ScalingDetails) :
              "throughput_improvement" \notin DOMAIN ScalingDetails[k]

\* analyze_scaling_performance has returned for a file whose 1-core average is
\* 100 and whose 4-core average is 350: factor 3.5, 87.5 %, improvement 250.
C9_Witness ==
    /\ VScaled
    /\ \E K \in Combos :
         /\ {1, 4} \subseteq CoreCounts(K)
         /\ AvgThroughput(K, 1) = QInt(100)
         /\ AvgThroughput(K, 4) = QInt(350)
         /\ \E k \in ResultsFor(K) : \E j \in MetricsFor(k, 4) :
              LET x == scaling_results[1][k].scaling_metrics[j]
              IN  /\ x.scaling_factor = Q(7, 2)
                  /\ x.scaling_efficiency_percent = Q(175, 2)
                  /\ x.throughput_improvement = QInt(250)

\* The scaling analysis raises no error: the only stops are those of a file
\* without valid measurements, before the analysis is reached.
NoScalingError ==
    /\ (prog = "validate" /\ pc = "crashed") => measurements = <<>>
    /\ (prog = "extract" /\ pc = "failed") => measurements_df.rows = <<>>
    /\ (prog = "validate" /\ measurements # <<>> /\ scaling_results = None)
         => pc \in {"main", "extract_all_measurements",
                    "original_dataset_info",
                    "validate_mathematical_consistency", "consistency_loop",
                    "reproduce_summary_statistics",
                    "identify_peak_configurations",
                    "analyze_scaling_performance"}
    /\ (prog = "extract" /\ measurements_df.set /\ measurements_df.rows # <<>>
          /\ processed_data = None) => pc = "calculate_real_statistics"

\* analyze_scaling_performance: a combination without a 1-core sub-group, or
\* with fewer than two core counts, has no entry in scaling_results.
VSkipsWithoutBaseline ==
    VScaled =>
      \A K \in Combos :
         (1 \notin CoreCounts(K) \/ Cardinality(CoreCounts(K)) < 2)
            => ResultsFor(K) = {}

\* the core counts present among the resnet18-imagenet batch-1 rows
RowCoreCounts == {c \in {1, 2, 4} : ScalingRows(c) # <<>>}

\* C10 as stated: a (model, batch) combination with no 1-core sub-group, or
\* with fewer than two distinct core counts, produces no scaling entry in
\* either analyzer, and no error; a group of 2-core measurements only yields
\* no entry for any core count.
C10_NoEntryWithoutBaseline ==
    /\ VSkipsWithoutBaseline
    /\ (EScaled /\ (1 \notin RowCoreCounts \/ Cardinality(RowCoreCounts) < 2))
         => ScalingDetails = <<>>
    /\ NoScalingError

\* C10 as amended: analyze_scaling_performance skips such a combination, and
\* neither analyzer raises an error; _analyze_multicore_scaling gives every
\* core count that has resnet18-imagenet batch-1 rows an entry whether or not
\* there is a 1-core sub-group or a second core count, and without 1-core
\* rows the entries for c > 1 carry scaling_factor 0 and efficiency 0.
C10_NoEntryWithoutBaselineInValidator ==
    /\ VSkipsWithoutBaseline
    /\ EScaled =>
         /\ \A c \in {1, 2, 4} :
              Cardinality(DetailsFor(c)) = IF c \in RowCoreCounts THEN 1 ELSE 0
         /\ \A k \in 1..Len(ScalingDetails) :
              /\ ScalingDetails[k].key \in {1, 2, 4}
              /\ ScalingDetails[k].throughput_fps
                   = RowAvg(ScalingDetails[k].key)
              /\ (1 \notin RowCoreCounts) =>
                   /\ ScalingDetails[k].scaling_factor = QInt(0)
                   /\ ScalingDetails[k].efficiency = QInt(0)
    /\ NoScalingError

\* _analyze_multicore_scaling has returned for rows that are all 2-core
\* resnet18-imagenet batch-1 rows: there is a 2-core entry, with
\* scaling_factor 0 and efficiency 0.
C10_Witness ==
    /\ EScaled
    /\ RowCoreCounts = {2}
    /\ Len(ScalingRows(2)) = Len(measurements_df.rows)
    /\ \E k \in DetailsFor(2) :
         /\ ScalingDetails[k].scaling_factor = QInt(0)
         /\ ScalingDetails[k].efficiency = QInt(0)

---------------------------------------------------------------------------
(* Properties of the runs on empty and incomplete inputs                   *)

\* the dataset was loaded and holds no valid record
VLoadedNothing == VLoaded /\ measurements = <<>>
ELoadedNothing ==
    prog = "extract" /\ measurements_df.set /\ measurements_df.rows = <<>>

\* every scaling factor and efficiency computed so far is a finite number
ScalingFinite ==
    /\ VScaled =>
         \A k \in 1..Len(scaling_results[1]) :
            \A j \in 1..Len(scaling_results[1][k].scaling_metrics) :
               IsFinite(scaling_results[1][k].scaling_metrics[j].scaling_factor)
    /\ EScaled =>
         \A k \in 1..Len(ScalingDetails) :
            IsFinite(ScalingDetails[k].scaling_factor)

\* C11: with zero valid records every analysis pass completes with empty
\* aggregates: no division by zero is raised and no exception ends the run
\* (nor does a zero mean or a zero 1-core baseline used as a denominator).
C11_EmptyDatasetCompletes ==
    /\ VLoadedNothing =>
         /\ raised = "" /\ pc # "crashed"
         /\ pc = "done" =>
              /\ consistency_results[1].failed_measurements = <<>>
              /\ peak_results[1].config_summaries = <<>>
              /\ scaling_results[1] = <<>>
    /\ ELoadedNothing =>
         /\ raised = "" /\ pc # "failed"
         /\ pc = "done" => ScalingDetails = <<>>
    /\ ScalingFinite

---------------------------------------------------------------------------
(* Properties of the consistency counters                                  *)

\* C17: at every point of the scan of validate_mathematical_consistency and
\* at its end, consistency_failures <= consistency_checks, and the success
\* rate of the report lies in [0, 100]; a record failing both checks does not
\* make the failures exceed the checks.
C17_FailuresWithinChecks ==
    /\ (prog = "validate" /\ consistency_results # None) =>
         consistency_results[1].consistency_failures
           <= consistency_results[1].consistency_checks
    /\ (prog = "validate" /\ report # None) =>
         /\ QLe(QInt(0), report[1].mathematical_consistency_rate)
         /\ QLe(report[1].mathematical_consistency_rate, QInt(100))

---------------------------------------------------------------------------
(* Properties of the returned peaks                                        *)

\* the peak of metric f is reported with a configuration and a measurement,
\* and the measurement has the peak value
PeakReported(value, config, measurement, f) ==
    /\ config # None
    /\ measurement # None
    /\ measurement[1][f] = value

\* C18: for a non-empty record sequence identify_peak_configurations returns
\* a non-null peak configuration and measurement for throughput and for
\* efficiency, the peak value being that of the returned measurement, also
\* when every efficiency, or every throughput, is <= 0.
C18_PeaksNeverNull ==
    (VPeaked /\ measurements # <<>>) =>
       LET res == peak_results[1]
       IN  /\ PeakReported(res.peak_throughput, res.peak_throughput_config,
                           res.peak_throughput_measurement, "throughput_fps")
           /\ PeakReported(res.peak_efficiency, res.peak_efficiency_config,
                           res.peak_efficiency_measurement,
                           "efficiency_fps_per_watt")


---------------------------------------------------------------------------
(* Statistics of metrics with a single sample, and confidence intervals    *)

\* the metrics said to require an interval estimate (power, throughput and
\* efficiency), under the names either program gives them
IntervalMetrics ==
    {"power_consumption_watts", "power_watts", "throughput_fps",
     "efficiency_fps_per_watt"}

VStatistics == IF stats_results = None THEN <<>> ELSE stats_results[1]
EStatistics ==
    IF processed_data = None THEN <<>>
    ELSE processed_data[1].performance_statistics

\* the statistics a program reports for a metric: entries under its name
EntriesFor(statistics, metric) ==
    {j \in 1..Len(statistics) : statistics[j].key = metric}

\* C12: a metric requiring an interval that has fewer than 2 samples is still
\* reported with its other statistics, without a confidence interval, by the
\* validator (stats_results) and by the extractor (performance_statistics),
\* and the statistics pass raises nothing.
C12_SingleSampleOmitsInterval ==
    /\ \A j \in 1..Len(VStatistics) :
         (VStatistics[j].key \in IntervalMetrics /\ VStatistics[j].count < 2)
           => VStatistics[j].confidence_interval_95 = None
    /\ (processed_data # None /\ measurements_df.rows # <<>>) =>
         \A metric \in IntervalMetrics \cap {EMetrics[j] : j \in 1..Len(EMetrics)} :
           Len(Column(measurements_df.rows, metric)) < 2 =>
             /\ EntriesFor(EStatistics, metric) # {}
             /\ \A j \in EntriesFor(EStatistics, metric) :
                  EStatistics[j].confidence_interval_95 = None

\* lower = mean - margin and upper = mean + margin around a mean that is a
\* number, with a margin that is a number and not negative
IntervalAround(mean, lower, upper, margin) ==
    /\ ~MarginIsNaN(margin) /\ margin.root[1] >= 0
    /\ lower = MeanPlus(mean, -1, margin)
    /\ upper = MeanPlus(mean, 1, margin)
    /\ lower.base = mean /\ upper.base = mean

\* C13: a confidence interval is attached to exactly power, throughput and
\* efficiency, with lower = mean - margin and upper = mean + margin for a
\* margin >= 0; temperature (and every other metric) carries none.
C13_IntervalsOnExactlyThreeMetrics ==
    /\ \A j \in 1..Len(VStatistics) :
         LET entry == VStatistics[j] IN
         /\ entry.key \in IntervalMetrics <=> entry.confidence_interval_95 # None
         /\ entry.confidence_interval_95 # None =>
              IntervalAround(entry.mean, entry.confidence_interval_95[1].lower,
                             entry.confidence_interval_95[1].upper,
                             entry.margin_of_error[1])
    /\ \A j \in 1..Len(EStatistics) :
         LET entry == EStatistics[j] IN
         /\ entry.key \in IntervalMetrics <=> entry.confidence_interval_95 # None
         /\ entry.confidence_interval_95 # None =>
              IntervalAround(entry.mean, entry.confidence_interval_95[1].lower,
                             entry.confidence_interval_95[1].upper,
                             entry.confidence_interval_95[1].margin_of_error)


---------------------------------------------------------------------------
(* Coefficient of variation                                                *)

\* cv = std / mean for signed roots: cv^2 * mean^2 = std^2, with the sign of
\* std * mean
IsStdOverMean(cv, std, mean) ==
    /\ ~RootIsNaN(cv)
    /\ cv[1] = std[1] * Sign(mean[1])
    /\ QMul(cv[2], QMul(mean, mean)) = std[2]

\* C16: every entry of performance_statistics whose mean is 0 reports a
\* coefficient of variation of exactly 0, whatever its standard deviation;
\* an entry with a non-zero mean reports std / mean.
C16_CoefficientOfVariation ==
    \A j \in 1..Len(EStatistics) :
      LET entry == EStatistics[j] IN
      IF entry.mean = QInt(0)
        THEN entry.coefficient_of_variation = <<0, QInt(0)>>
        ELSE IsStdOverMean(entry.coefficient_of_variation, entry.std, entry.mean)

\* an entry with mean 0 and a standard deviation that is not 0, next to an
\* entry with a non-zero mean and a non-zero standard deviation
C16_Witness ==
    /\ \E j \in 1..Len(EStatistics) :
         /\ EStatistics[j].mean = QInt(0) /\ EStatistics[j].std[1] # 0
         /\ EStatistics[j].coefficient_of_variation = <<0, QInt(0)>>
    /\ \E j \in 1..Len(EStatistics) :
         /\ EStatistics[j].mean # QInt(0) /\ EStatistics[j].std[1] # 0
         /\ EStatistics[j].coefficient_of_variation[1] # 0


---------------------------------------------------------------------------
(* The passes and their input                                              *)

\* a step of the consistency validator, the peak finder or the scaling
\* analyzer of validate_calculations.py, or of validate_measurements
PassStep ==
    \/ ConsistencyBegin \/ ConsistencyStep \/ ConsistencyEnd
    \/ IdentifyPeaks \/ AnalyzeScaling
    \/ MeasurementsBegin \/ MeasurementsStep \/ MeasurementsEnd
    \/ CallValidateMeasurements

\* C14: every step of the consistency validator, the peak finder, the scaling
\* analyzer and validate_measurements leaves the record sequence it reads
\* (measurements, the rows of measurements_df) as it was: same length, same
\* order, same field values.
C14_PassesLeaveRecordsUnchanged ==
    [][PassStep => /\ measurements' = measurements
                   /\ measurements_df' = measurements_df]_vars

\* the three passes of the validator have run over two or more records, one
\* of which failed a consistency check
C14_Witness ==
    /\ prog = "validate" /\ pc = "overall_assessment"
    /\ Len(measurements) >= 2
    /\ consistency_results[1].consistency_failures > 0
    /\ peak_results # None /\ scaling_results # None
    /\ measurements = ExtractAll(<<>>, raw)


---------------------------------------------------------------------------
(* Runs on missing and incomplete files                                    *)

\* The file is missing, or lacks top-level structure the program reads
\* without a default: detailed_results for both programs, and
\* summary_statistics and benchmark_metadata for extract_real_data_only.py.
MissingStructure ==
    /\ prog \in {"validate", "extract"}
    /\ \/ ~file.exists
       \/ "detailed_results" \notin file.keys
       \/ prog = "extract" /\ ~(TopLevelKeys \subseteq file.keys)

\* no pass has returned a result, and the validator has checked no record
NoAnalysisOutput ==
    /\ stats_results = None /\ peak_results = None /\ scaling_results = None
    /\ report = None /\ processed_data = None /\ validation_results = None
    /\ consistency_results # None =>
         consistency_results[1].consistency_checks = 0

\* the run has ended without completing
Aborted == pc \in {"no_data", "crashed", "failed"}

CompletedDespiteFailures ==
    /\ prog = "validate" /\ pc = "done"
    /\ consistency_results[1].consistency_failures >= Len(measurements)
    /\ "VALIDATION_CALCULATIONS_REPORT.json" \in written


---------------------------------------------------------------------------
(* Calls on a RealDataExtractor out of order                               *)

\* the call raised ValueError and left the object's data as it was
FailsWithValueError ==
    /\ raised' = "ValueError"
    /\ UNCHANGED <<raw_data, measurements_df, processed_data>>

\* No load has succeeded: nothing is loaded, or the load of this file raises.
NeverLoaded == raw_data = None \/ LoadRaises # ""

\* No extract has succeeded: only extract_performance_metrics sets the table.
NeverExtracted == ~measurements_df.set

\* C19: in every sequence of calls, extract_performance_metrics before a
\* successful load raises ValueError, calculate_real_statistics and
\* validate_measurements before a successful extract raise ValueError, and
\* the failing call changes none of raw_data, measurements_df, processed_data.
C19_OutOfOrderCallsRaiseValueError ==
    [][/\ (CallExtractPerformanceMetrics /\ NeverLoaded) => FailsWithValueError
       /\ (CallCalculateRealStatistics /\ NeverExtracted) => FailsWithValueError
       /\ (CallValidateMeasurements /\ NeverExtracted) => FailsWithValueError
      ]_vars

\* the part that holds: extract_performance_metrics on an object that holds
\* no raw data raises ValueError and changes nothing
ExtractWithoutDataRaisesValueError ==
    [][(CallExtractPerformanceMetrics /\ raw_data = None)
         => FailsWithValueError]_vars

=============================================================================
